---- MODULE Spec2Model ----
(***************************************************************************)
(* Model of tasks/mutation-testing.js of grunt-mutation-testing: the       *)
(* promise chain built by mutationTest (one beforeEach / baseline /        *)
(* mutationTestFile / afterEach group per entry of opts.mutate, then the   *)
(* summary, the report, the after hook and done) and the per-file chain    *)
(* built by mutationTestFile.                                              *)
(*                                                                         *)
(* Files on disk are byte sequences (integers 0..255); the source text     *)
(* the program works on is the sequence of code points that                *)
(* fs.readFileSync(.., 'UTF8') decodes from them, and every write encodes  *)
(* a text back to bytes.                                                   *)
(***************************************************************************)
EXTENDS Integers, Sequences, FiniteSets, TLC

\* Length of opts.mutate: the files are 1..NumFiles, mutated in this order.
NumFiles == 2

\* The generator's list for a file is cut after MaxMutations descriptors.
MaxMutations == 3

Files == 1..NumFiles

\* mutation.parentMutationId of a mutation that has no enclosing mutation.
NoParent == 0

\* U+FFFD, which the UTF-8 decoder substitutes for a malformed sequence.
ReplacementChar == 65533

TestStatusValues == {"KILLED", "SURVIVED", "FATAL"}

------------------------------------------------------------------------------
(* fs.readFileSync(name, 'UTF8') and fs.writeFileSync(name, string):       *)
(* UTF-8 decoding and encoding for code points up to U+FFFF.               *)

IsContinuation(b) == b >= 128 /\ b <= 191

RECURSIVE Utf8Decode(_)
Utf8Decode(bytes) ==
    IF bytes = <<>> THEN <<>>
    ELSE LET b == bytes[1]
             n == Len(bytes)
         IN IF b < 128
            THEN <<b>> \o Utf8Decode(Tail(bytes))
            ELSE IF b >= 194 /\ b <= 223 /\ n >= 2 /\ IsContinuation(bytes[2])
            THEN <<(b - 192) * 64 + (bytes[2] - 128)>>
                     \o Utf8Decode(SubSeq(bytes, 3, n))
            ELSE IF /\ b >= 224 /\ b <= 239 /\ n >= 3
                    /\ IsContinuation(bytes[2]) /\ IsContinuation(bytes[3])
                    /\ (b = 224 => bytes[2] >= 160)
                    /\ (b = 237 => bytes[2] <= 159)
            THEN <<(b - 224) * 4096 + (bytes[2] - 128) * 64 + (bytes[3] - 128)>>
                     \o Utf8Decode(SubSeq(bytes, 4, n))
            ELSE <<ReplacementChar>> \o Utf8Decode(Tail(bytes))

RECURSIVE Utf8Encode(_)
Utf8Encode(text) ==
    IF text = <<>> THEN <<>>
    ELSE LET c == text[1]
         IN (IF c < 128 THEN <<c>>
             ELSE IF c < 2048 THEN <<192 + (c \div 64), 128 + (c % 64)>>
             ELSE <<224 + (c \div 4096), 128 + ((c \div 64) % 64), 128 + (c % 64)>>)
            \o Utf8Encode(Tail(text))

------------------------------------------------------------------------------
(* The target files the run can start with.                                *)

\* "ab"
BytesAscii == <<97, 98>>
\* "a" followed by a Latin-1 e-acute: the lone byte 0xE9 is malformed UTF-8
BytesLatin1 == <<97, 233>>
\* "a" followed by e-acute in UTF-8 (0xC3 0xA9)
BytesUtf8 == <<97, 195, 169>>

FileContents == {BytesAscii, BytesLatin1, BytesUtf8}

NoFile == [exists |-> FALSE, bytes |-> <<>>]
FileOf(bytes) == [exists |-> TRUE, bytes |-> bytes]

------------------------------------------------------------------------------
(* lib/Mutator: collectMutations returns an ordered list of descriptors    *)
(* for a source text, applyMutation renders one of them.                   *)

Mutation(id, parent, b, e, repl) ==
    [mutationId |-> id, parentMutationId |-> parent,
     begin |-> b, end |-> e, replacement |-> repl]

GeneratedMutations(src) ==
    IF src = <<97, 98>>
    THEN << Mutation(1, NoParent, 0, 2, <<>>),
            Mutation(2, 1, 0, 1, <<98>>),
            Mutation(3, 2, 0, 1, <<>>),
            Mutation(4, 1, 1, 2, <<97>>) >>
    ELSE IF src = <<97, 233>>
    THEN << Mutation(6, 1, 1, 2, <<>>),
            Mutation(7, NoParent, 0, 1, <<98>>) >>
    ELSE IF src = <<97, ReplacementChar>>
    THEN << Mutation(1, NoParent, 0, 2, <<98>>),
            Mutation(2, 1, 1, 2, <<>>) >>
    ELSE << >>

collectMutations(src) ==
    LET all == GeneratedMutations(src)
    IN IF Len(all) > MaxMutations THEN SubSeq(all, 1, MaxMutations) ELSE all

\* src.substring(b, e) with 0 <= b <= e <= length
Substring(s, b, e) == SubSeq(s, b + 1, e)

applyMutation(src, mutation) ==
    Substring(src, 0, mutation.begin) \o mutation.replacement
        \o Substring(src, mutation.end, Len(src))

------------------------------------------------------------------------------
(* Filter: ensureRegExpArray, canBeIgnored, canBeDiscarded.                *)
(* A pattern is a literal text, given as a string (compiled to ^text$) or  *)
(* as a RegExp object (used as it is, so it matches anywhere).             *)

StringPattern(text) == [isString |-> TRUE, text |-> text]
RegExpPattern(text) == [isString |-> FALSE, text |-> text]

\* An option that is not set, a single pattern, or an array of patterns.
NoOption == [kind |-> "none", items |-> <<>>]
SinglePattern(p) == [kind |-> "single", items |-> <<p>>]
PatternArray(ps) == [kind |-> "array", items |-> ps]

Contains(subject, text) ==
    \E i \in 0..(Len(subject) - Len(text)) :
        Substring(subject, i, i + Len(text)) = text

\* pattern.test(subject)
RegExpTest(pattern, subject) ==
    IF pattern.isString THEN subject = pattern.text
    ELSE Contains(subject, pattern.text)

ensureRegExpArray(value) == value.items

canBeIgnored(o, src, mutation) ==
    IF o.ignore.kind = "none" THEN FALSE
    ELSE LET ignorePatterns == ensureRegExpArray(o.ignore)
             affectedSrcPart == Substring(src, mutation.begin, mutation.end)
         IN \E i \in 1..Len(ignorePatterns) :
                RegExpTest(ignorePatterns[i], affectedSrcPart)

canBeDiscarded(o, mutation) ==
    IF o.discardReplacements.kind = "none" THEN FALSE
    ELSE LET discardPatterns == ensureRegExpArray(o.discardReplacements)
         IN \E i \in 1..Len(discardPatterns) :
                RegExpTest(discardPatterns[i], mutation.replacement)

------------------------------------------------------------------------------
(* Stats.                                                                  *)

createStats == [all |-> 0, ignored |-> 0, untested |-> 0, survived |-> 0]

\* mutant: the first stats are added to themselves
addStats_Self(stats1, stats2) ==
    [key \in DOMAIN stats1 |-> stats1[key] + stats1[key]]

addStats(stats1, stats2) ==
    [key \in DOMAIN stats1 |-> stats1[key] + stats2[key]]

------------------------------------------------------------------------------
(* Math.floor((testedMutations / allUnIgnored) * 100) is computed in IEEE   *)
(* 754 doubles: the quotient is rounded to 53 significant binary digits    *)
(* (to nearest, ties to even), its product with 100 is rounded again, and  *)
(* floor takes the integer part. A 53-digit significand is kept as three   *)
(* limbs of 18, 18 and 17 binary digits, so that every intermediate value  *)
(* is a small integer.                                                     *)
MantissaBits == 53

\* the number of zero digits after the binary point of t / u before the
\* first one, for 0 < t < u
RECURSIVE LeadingZeros(_, _)
LeadingZeros(t, u) == IF 2 * t >= u THEN 0 ELSE 1 + LeadingZeros(2 * t, u)

\* round-to-nearest-even decision: guard is the first digit dropped, sticky
\* says that nonzero digits follow it, odd that the last digit kept is 1
RoundsUp(guard, sticky, odd) == guard = 1 /\ (sticky \/ odd)

\* t / u as a double, for 0 < t < u: the significand of MantissaBits digits
\* in limbs and the number z of leading zeros; the value is
\* (hi * 2^35 + mid * 2^17 + lo) * 2^-(z + MantissaBits)
Divide(t, u) ==
    LET z == LeadingZeros(t, u)
        r0 == t * 2^z
        d1 == (r0 * 2^18) \div u
        r1 == (r0 * 2^18) % u
        d2 == (r1 * 2^18) \div u
        r2 == (r1 * 2^18) % u
        d3 == (r2 * 2^17) \div u
        r3 == (r2 * 2^17) % u
        guard == (2 * r3) \div u
        sticky == (2 * r3) % u # 0
        up == RoundsUp(guard, sticky, d3 % 2 = 1)
        lo == IF up THEN d3 + 1 ELSE d3
        mid == IF lo = 2^17 THEN d2 + 1 ELSE d2
        hi == IF mid = 2^18 THEN d1 + 1 ELSE d1
    IN [hi |-> hi, mid |-> mid % 2^18, lo |-> lo % 2^17, zeros |-> z]

\* Math.floor(x * k) for a double x as Divide returns it and a small
\* integer k with 2^6 <= k < 2^7: the exact product, rounded to
\* MantissaBits digits, and then its integer part
FloorOfProduct(x, k) ==
    LET c == k * x.lo
        p3 == c % 2^17
        b == k * x.mid + c \div 2^17
        p2 == b % 2^18
        p1 == k * x.hi + b \div 2^18
        \* the product has 35 + 24 or 35 + 25 digits; d digits are dropped
        d == IF p1 >= 2^24 THEN 7 ELSE 6
        dropped == p3 % 2^d
        up == RoundsUp(dropped \div 2^(d - 1), dropped % 2^(d - 1) # 0,
                       (p3 \div 2^d) % 2 = 1)
        \* the integer part starts x.zeros + 18 digits into p1; rounding up
        \* carries into it when every digit kept below it is 1
        w == x.zeros + 18
        carries == /\ up
                   /\ p3 \div 2^d = 2^(17 - d) - 1
                   /\ p2 = 2^18 - 1
                   /\ p1 % 2^w = 2^w - 1
    IN p1 \div 2^w + (IF carries THEN 1 ELSE 0)

\* Math.floor((testedMutations / allUnIgnored) * 100), as it is printed
percentTested(testedMutations, allUnIgnored) ==
    IF allUnIgnored = 0 THEN "NaN"
    ELSE IF testedMutations = 0 THEN "0"
    ELSE IF testedMutations = allUnIgnored THEN "100"
    ELSE ToString(FloorOfProduct(Divide(testedMutations, allUnIgnored), 100))

\* lines 72-79: the parts of the summary message
createStatsMessage(s) ==
    LET allUnIgnored == s.all - s.ignored
        testedMutations == allUnIgnored - s.untested - s.survived
    IN [type |-> "stats",
        tested |-> testedMutations,
        unignored |-> allUnIgnored,
        percent |-> percentTested(testedMutations, allUnIgnored),
        hasIgnoredMessage |-> (s.ignored # 0),
        ignored |-> s.ignored]

\* mutant: every status that is not FATAL counts as survived
isSurvived_NotFatal(testStatus) == testStatus # "FATAL"

\* testStatus === TestStatus.SURVIVED
isSurvived(testStatus) == testStatus = "SURVIVED"

\* mutant: the FATAL branch is never taken
isFatal_Never(testStatus) == FALSE

\* testStatus === TestStatus.FATAL
isFatal(testStatus) == testStatus = "FATAL"

\* mutant: the baseline result is not looked at
testsPassWithoutMutations_Always(testOk) == TRUE

\* if(testOk): the status of the baseline run, read as a boolean
testsPassWithoutMutations(testOk) == testOk

\* mutant: the existence check is missing
fileExists_Always(files, file) == TRUE

\* grunt.file.exists(file)
fileExists(files, file) == files[file].exists

createMutationLogMessage(file, mutation, testStatus) ==
    [mutation |-> mutation,
     survived |-> isSurvived(testStatus),
     message |-> [type |-> "mutation", file |-> file,
                  verb |-> IF mutation.replacement # <<>> THEN "Replaced"
                           ELSE "Removed",
                  begin |-> mutation.begin, end |-> mutation.end,
                  status |-> testStatus]]

createTestsFailWithoutMutationsLogMessage(file) ==
    [type |-> "testsFailWithoutMutations", file |-> file]

createNotTestedBecauseInsideUntestedMutationLogMessage(file, mutation) ==
    [type |-> "insideSurvivingMutation", file |-> file,
     begin |-> mutation.begin]

------------------------------------------------------------------------------
(* State.                                                                  *)

VARIABLES
    disk,               \* the target files: [exists, bytes] per file
    original,           \* history: the files as they were when the task started
    opts,               \* the options object (opts.currentFile is assigned)
    survivingMutations, \* module-level array of mutation ids
    pc,                 \* position of the promise chain of mutationTest
    fileIdx,            \* index in opts.mutate of the file the chain is at
    src,                \* mutationTestFile: the text read from the file
    mutations,          \* mutationTestFile: mutator.collectMutations(..)
    queue,              \* indices of the mutations chained on mutationPromise
    qpos,               \* position of mutationPromise in queue
    stats,              \* mutationTestFile: stats
    mutationResults,    \* fileMutationResult.mutationResults
    statsSummary,       \* mutationTest: statsSummary
    totalResults,       \* mutationTest: totalResults
    reportLog,          \* messages given to logMutationToFileDest
    warnings,           \* grunt.log.warn
    errors,             \* console.error
    htmlReports,        \* arguments of reportGenerator.generate
    afterHook,          \* "idle", "running" (opts.after invoked), "completed"
    doneCalls,          \* number of calls of the task's done callback
    exited,             \* process.exit was called
    exitCode,
    outcome,            \* history: class of every generated mutation
    writes,             \* history: times each mutation's mutant was written
    runs,               \* history: test runs started for each mutation
    calls,              \* history: hook, baseline and restore counts per file
    baselineStatus,     \* history: "none", "passed" or "failed" per file
    trace               \* history: test runs in flight, hook counts, the value
                        \* beforeEach passed for the current file, test order

vars == << disk, original, opts, survivingMutations, pc, fileIdx, src,
           mutations, queue, qpos, stats, mutationResults, statsSummary,
           totalResults, reportLog, warnings, errors, htmlReports, afterHook,
           doneCalls, exited, exitCode, outcome, writes, runs, calls,
           baselineStatus, trace >>

fileVars == << src, mutations, queue, qpos, stats, mutationResults >>
logVars == << reportLog, warnings, errors, htmlReports >>
histVars == << outcome, writes, runs, baselineStatus >>
endVars == << afterHook, doneCalls, exited, exitCode >>

IgnoreChoices ==
    { NoOption,
      SinglePattern(StringPattern(<<97>>)),
      PatternArray(<< RegExpPattern(<<98>>) >>) }

DiscardChoices ==
    { NoOption, SinglePattern(StringPattern(<<98>>)) }

OptsChoices ==
    { [dontTestInsideNotFailingMutations |-> nested,
       ignore |-> ign,
       discardReplacements |-> disc,
       reportersHtml |-> nested,
       currentFile |-> 0] :
        nested \in BOOLEAN, ign \in IgnoreChoices, disc \in DiscardChoices }

NoCalls == [beforeEach |-> 0, beforeEachDone |-> 0, baseline |-> 0,
            restore |-> 0, afterEach |-> 0, afterEachDone |-> 0]

NoTrace == [inFlight |-> 0, beforeCalls |-> 0, afterCalls |-> 0,
            ok |-> "none", testLog |-> <<>>]

Init ==
    /\ disk \in [Files -> {NoFile} \cup {FileOf(b) : b \in FileContents}]
    /\ original = disk
    /\ opts \in OptsChoices
    /\ survivingMutations = <<>>
    /\ pc = "init"
    /\ fileIdx = 0
    /\ src = <<>>
    /\ mutations = <<>>
    /\ queue = <<>>
    /\ qpos = 0
    /\ stats = createStats
    /\ mutationResults = <<>>
    /\ statsSummary = createStats
    /\ totalResults = <<>>
    /\ reportLog = <<>>
    /\ warnings = <<>>
    /\ errors = <<>>
    /\ htmlReports = <<>>
    /\ afterHook = "idle"
    /\ doneCalls = 0
    /\ exited = FALSE
    /\ exitCode = 0
    /\ outcome = [f \in Files |-> <<>>]
    /\ writes = [f \in Files |-> <<>>]
    /\ runs = [f \in Files |-> <<>>]
    /\ calls = [f \in Files |-> NoCalls]
    /\ baselineStatus = [f \in Files |-> "none"]
    /\ trace = NoTrace

------------------------------------------------------------------------------
(* mutationTestFile, lines 135-160: the synchronous part.  The forEach     *)
(* loop counts every mutation in stats.all, drops the discarded ones,      *)
(* counts the ignored ones and chains a step for each of the others.       *)

\* mutant: the ignore patterns are tried before the discard patterns
RECURSIVE FilterLoop_IgnoreFirst(_, _, _, _, _)
FilterLoop_IgnoreFirst(o, text, muts, k, acc) ==
    IF k > Len(muts) THEN acc
    ELSE LET counted == [acc EXCEPT !.stats.all = @ + 1]
         IN IF canBeIgnored(o, text, muts[k])
            THEN FilterLoop_IgnoreFirst(o, text, muts, k + 1,
                     [counted EXCEPT !.stats.ignored = @ + 1,
                                     !.classes = Append(@, "IGNORED")])
            ELSE IF canBeDiscarded(o, muts[k])
            THEN FilterLoop_IgnoreFirst(o, text, muts, k + 1,
                     [counted EXCEPT !.classes = Append(@, "DISCARDED")])
            ELSE FilterLoop_IgnoreFirst(o, text, muts, k + 1,
                     [counted EXCEPT !.queue = Append(@, k),
                                     !.classes = Append(@, "PENDING")])

\* mutant: each queued mutation is chained in front of the steps before it
RECURSIVE FilterLoop_Reversed(_, _, _, _, _)
FilterLoop_Reversed(o, text, muts, k, acc) ==
    IF k > Len(muts) THEN acc
    ELSE LET counted == [acc EXCEPT !.stats.all = @ + 1]
         IN IF canBeDiscarded(o, muts[k])
            THEN FilterLoop_Reversed(o, text, muts, k + 1,
                     [counted EXCEPT !.classes = Append(@, "DISCARDED")])
            ELSE IF canBeIgnored(o, text, muts[k])
            THEN FilterLoop_Reversed(o, text, muts, k + 1,
                     [counted EXCEPT !.stats.ignored = @ + 1,
                                     !.classes = Append(@, "IGNORED")])
            ELSE FilterLoop_Reversed(o, text, muts, k + 1,
                     [counted EXCEPT !.queue = <<k>> \o @,
                                     !.classes = Append(@, "PENDING")])

RECURSIVE FilterLoop(_, _, _, _, _)
FilterLoop(o, text, muts, k, acc) ==
    IF k > Len(muts) THEN acc
    ELSE LET counted == [acc EXCEPT !.stats.all = @ + 1]
         IN IF canBeDiscarded(o, muts[k])
            THEN FilterLoop(o, text, muts, k + 1,
                     [counted EXCEPT !.classes = Append(@, "DISCARDED")])
            ELSE IF canBeIgnored(o, text, muts[k])
            THEN FilterLoop(o, text, muts, k + 1,
                     [counted EXCEPT !.stats.ignored = @ + 1,
                                     !.classes = Append(@, "IGNORED")])
            ELSE FilterLoop(o, text, muts, k + 1,
                     [counted EXCEPT !.queue = Append(@, k),
                                     !.classes = Append(@, "PENDING")])

FilterAll(o, text, muts) ==
    FilterLoop(o, text, muts, 1,
               [stats |-> createStats, queue |-> <<>>, classes |-> <<>>])

\* mutant: the mutation's own id is looked up instead of its parent's
isInsideNotFailingMutation_OwnId(surviving, innerMutation) ==
    \E i \in 1..Len(surviving) : surviving[i] = innerMutation.mutationId

isInsideNotFailingMutation(surviving, innerMutation) ==
    \E i \in 1..Len(surviving) : surviving[i] = innerMutation.parentMutationId

Zeros(n) == [k \in 1..n |-> 0]

\* history: the class that the status the runner reported puts a mutation in
OutcomeFor(testStatus) ==
    CASE testStatus = "SURVIVED" -> "TESTED_SURVIVED"
      [] testStatus = "FATAL" -> "FATAL"
      [] OTHER -> "TESTED_KILLED"

Bump(counts, f, field) == [counts EXCEPT ![f][field] = @ + 1]

------------------------------------------------------------------------------
(* mutationTest: the steps of the promise chain.                           *)

\* lines 196-231: task.async(), then opts.before is invoked
StartTask ==
    /\ ~exited
    /\ trace' = [trace EXCEPT !.beforeCalls = @ + 1]
    /\ pc = "init"
    /\ pc' = "before"
    /\ UNCHANGED << disk, original, opts, survivingMutations, fileIdx,
                    statsSummary, totalResults, calls >>
    /\ UNCHANGED << fileVars, logVars, histVars, endVars >>

\* lines 231-307: the before hook calls back; the whole chain is built
BeforeCallback ==
    /\ ~exited
    /\ UNCHANGED trace
    /\ pc = "before"
    /\ statsSummary' = createStats
    /\ fileIdx' = 1
    /\ pc' = "ready"
    /\ UNCHANGED << disk, original, opts, survivingMutations, totalResults,
                    calls >>
    /\ UNCHANGED << fileVars, logVars, histVars, endVars >>

\* lines 243-252: opts.currentFile is set and opts.beforeEach is invoked
BeforeEachStart ==
    /\ ~exited
    /\ UNCHANGED trace
    /\ pc = "ready"
    /\ fileIdx <= NumFiles
    /\ opts' = [opts EXCEPT !.currentFile = fileIdx]
    /\ calls' = Bump(calls, fileIdx, "beforeEach")
    /\ pc' = "beforeEach"
    /\ UNCHANGED << disk, original, survivingMutations, fileIdx,
                    statsSummary, totalResults >>
    /\ UNCHANGED << fileVars, logVars, histVars, endVars >>

\* mutant: a false value from beforeEach skips the file
BeforeEachCallback_Gated(ok) ==
    /\ ~exited
    /\ pc = "beforeEach"
    /\ IF ok
       THEN /\ trace' = [trace EXCEPT !.inFlight = @ + 1, !.ok = ToString(ok)]
            /\ calls' = Bump(Bump(calls, fileIdx, "beforeEachDone"),
                             fileIdx, "baseline")
            /\ pc' = "baseline"
       ELSE /\ trace' = [trace EXCEPT !.ok = ToString(ok)]
            /\ calls' = Bump(calls, fileIdx, "beforeEachDone")
            /\ pc' = "fileEnd"
    /\ UNCHANGED << disk, original, opts, survivingMutations, fileIdx,
                    statsSummary, totalResults >>
    /\ UNCHANGED << fileVars, logVars, histVars, endVars >>

\* lines 247-257: beforeEach calls back with ok (which nothing reads); the
\* next step of the chain invokes runTests for the baseline
BeforeEachCallback(ok) ==
    /\ ~exited
    /\ trace' = [trace EXCEPT !.inFlight = @ + 1, !.ok = ToString(ok)]
    /\ pc = "beforeEach"
    /\ calls' = Bump(Bump(calls, fileIdx, "beforeEachDone"), fileIdx, "baseline")
    /\ pc' = "baseline"
    /\ UNCHANGED << disk, original, opts, survivingMutations, fileIdx,
                    statsSummary, totalResults >>
    /\ UNCHANGED << fileVars, logVars, histVars, endVars >>

\* lines 257-276 with lines 135-160: the baseline run reports a status
\* that the code reads as a boolean
BaselineReport(testOk) ==
    /\ ~exited
    /\ trace' = [trace EXCEPT !.inFlight = @ - 1]
    /\ pc = "baseline"
    /\ baselineStatus' = [baselineStatus EXCEPT ![fileIdx] =
           IF testOk THEN "passed" ELSE "failed"]
    /\ \/ /\ ~testsPassWithoutMutations(testOk)
          /\ reportLog' = Append(reportLog,
                 createTestsFailWithoutMutationsLogMessage(fileIdx))
          /\ pc' = "fileEnd"
          /\ UNCHANGED << warnings, fileVars, outcome, writes, runs >>
       \/ /\ testsPassWithoutMutations(testOk)
          /\ ~fileExists(disk, fileIdx)
          /\ warnings' = Append(warnings,
                 [type |-> "notFound", file |-> fileIdx])
          /\ pc' = "fileEnd"
          /\ UNCHANGED << reportLog, fileVars, outcome, writes, runs >>
       \/ /\ testsPassWithoutMutations(testOk)
          /\ fileExists(disk, fileIdx)
          /\ LET text == Utf8Decode(disk[fileIdx].bytes)
                 muts == collectMutations(text)
                 loop == FilterAll(opts, text, muts)
             IN /\ src' = text
                /\ mutations' = muts
                /\ stats' = loop.stats
                /\ queue' = loop.queue
                /\ qpos' = 1
                /\ mutationResults' = <<>>
                /\ outcome' = [outcome EXCEPT ![fileIdx] = loop.classes]
                /\ writes' = [writes EXCEPT ![fileIdx] = Zeros(Len(muts))]
                /\ runs' = [runs EXCEPT ![fileIdx] = Zeros(Len(muts))]
          /\ pc' = "mutating"
          /\ UNCHANGED << reportLog, warnings >>
    /\ UNCHANGED << disk, original, opts, survivingMutations, fileIdx,
                    statsSummary, totalResults, errors, htmlReports, calls >>
    /\ UNCHANGED endVars

\* mutant: a mutation skipped as nested is recorded like a survivor
MutationStep_Transitive ==
    /\ ~exited
    /\ pc = "mutating"
    /\ qpos <= Len(queue)
    /\ LET k == queue[qpos]
           mutation == mutations[k]
       IN IF /\ opts.dontTestInsideNotFailingMutations
             /\ isInsideNotFailingMutation(survivingMutations, mutation)
          THEN /\ stats' = [stats EXCEPT !.untested = @ + 1]
               /\ reportLog' = Append(reportLog,
                      createNotTestedBecauseInsideUntestedMutationLogMessage(
                          fileIdx, mutation))
               /\ outcome' = [outcome EXCEPT ![fileIdx][k] = "UNTESTED_NESTED"]
               /\ survivingMutations' =
                      Append(survivingMutations, mutation.mutationId)
               /\ qpos' = qpos + 1
               /\ UNCHANGED << disk, pc, writes, runs, trace >>
          ELSE /\ disk' = [disk EXCEPT ![fileIdx] =
                      FileOf(Utf8Encode(applyMutation(src, mutation)))]
               /\ writes' = [writes EXCEPT ![fileIdx][k] = @ + 1]
               /\ runs' = [runs EXCEPT ![fileIdx][k] = @ + 1]
               /\ trace' = [trace EXCEPT !.inFlight = @ + 1,
                      !.testLog = Append(@, <<fileIdx, k>>)]
               /\ pc' = "testing"
               /\ UNCHANGED << stats, reportLog, outcome, qpos,
                               survivingMutations >>
    /\ UNCHANGED << original, opts, fileIdx, src,
                    mutations, queue, mutationResults, statsSummary,
                    totalResults, warnings, errors, htmlReports, calls,
                    baselineStatus >>
    /\ UNCHANGED endVars

\* lines 161-169: the chained step of one mutation
MutationStep ==
    /\ ~exited
    /\ pc = "mutating"
    /\ qpos <= Len(queue)
    /\ LET k == queue[qpos]
           mutation == mutations[k]
       IN IF /\ opts.dontTestInsideNotFailingMutations
             /\ isInsideNotFailingMutation(survivingMutations, mutation)
          THEN /\ stats' = [stats EXCEPT !.untested = @ + 1]
               /\ reportLog' = Append(reportLog,
                      createNotTestedBecauseInsideUntestedMutationLogMessage(
                          fileIdx, mutation))
               /\ outcome' = [outcome EXCEPT ![fileIdx][k] = "UNTESTED_NESTED"]
               /\ qpos' = qpos + 1
               /\ UNCHANGED << disk, pc, writes, runs, trace >>
          ELSE /\ disk' = [disk EXCEPT ![fileIdx] =
                      FileOf(Utf8Encode(applyMutation(src, mutation)))]
               /\ writes' = [writes EXCEPT ![fileIdx][k] = @ + 1]
               /\ runs' = [runs EXCEPT ![fileIdx][k] = @ + 1]
               /\ trace' = [trace EXCEPT !.inFlight = @ + 1,
                      !.testLog = Append(@, <<fileIdx, k>>)]
               /\ pc' = "testing"
               /\ UNCHANGED << stats, reportLog, outcome, qpos >>
    /\ UNCHANGED << original, opts, survivingMutations, fileIdx, src,
                    mutations, queue, mutationResults, statsSummary,
                    totalResults, warnings, errors, htmlReports, calls,
                    baselineStatus >>
    /\ UNCHANGED endVars

\* line 168: fs.writeFileSync throws in the step of a mutation; the file is
\* left as it was or cut short, and the step's promise is rejected
MutantWriteThrows ==
    /\ ~exited
    /\ pc = "mutating"
    /\ qpos <= Len(queue)
    /\ ~( /\ opts.dontTestInsideNotFailingMutations
          /\ isInsideNotFailingMutation(survivingMutations, mutations[queue[qpos]]) )
    /\ \E partial \in BOOLEAN :
           disk' = IF partial THEN [disk EXCEPT ![fileIdx] = FileOf(<<>>)]
                   ELSE disk
    /\ pc' = "failing"
    /\ UNCHANGED << original, opts, survivingMutations, fileIdx,
                    statsSummary, totalResults, calls, trace >>
    /\ UNCHANGED << fileVars, logVars, histVars, endVars >>

\* lines 168-169 with 218-229: the mutant is written, then runTests throws
\* (exec or opts.test throws); no run is started and the promise is rejected
RunTestsThrows ==
    /\ ~exited
    /\ pc = "mutating"
    /\ qpos <= Len(queue)
    /\ LET k == queue[qpos]
           mutation == mutations[k]
       IN /\ ~( /\ opts.dontTestInsideNotFailingMutations
                /\ isInsideNotFailingMutation(survivingMutations, mutation) )
          /\ disk' = [disk EXCEPT ![fileIdx] =
                 FileOf(Utf8Encode(applyMutation(src, mutation)))]
          /\ writes' = [writes EXCEPT ![fileIdx][k] = @ + 1]
    /\ pc' = "failing"
    /\ UNCHANGED << original, opts, survivingMutations, fileIdx,
                    statsSummary, totalResults, calls, trace, outcome, runs,
                    baselineStatus >>
    /\ UNCHANGED << fileVars, logVars, endVars >>

\* mutant: only the result of a surviving mutation is kept
TestReport_SurvivorsOnly(testStatus) ==
    /\ ~exited
    /\ trace' = [trace EXCEPT !.inFlight = @ - 1]
    /\ pc = "testing"
    /\ LET k == queue[qpos]
           mutationResult ==
               createMutationLogMessage(fileIdx, mutations[k], testStatus)
       IN /\ outcome' = [outcome EXCEPT ![fileIdx][k] = OutcomeFor(testStatus)]
          /\ IF isSurvived(testStatus)
             THEN /\ mutationResults' = Append(mutationResults, mutationResult)
                  /\ stats' = [stats EXCEPT !.survived = @ + 1]
                  /\ reportLog' = Append(reportLog, mutationResult.message)
                  /\ survivingMutations' =
                         Append(survivingMutations, mutations[k].mutationId)
                  /\ qpos' = qpos + 1
                  /\ pc' = "mutating"
                  /\ UNCHANGED << errors, exited, exitCode >>
             ELSE IF isFatal(testStatus)
             THEN /\ errors' = Append(errors, mutationResult.message)
                  /\ exited' = TRUE
                  /\ exitCode' = 1
                  /\ UNCHANGED << stats, reportLog, survivingMutations,
                                  qpos, pc, mutationResults >>
             ELSE /\ qpos' = qpos + 1
                  /\ pc' = "mutating"
                  /\ UNCHANGED << stats, reportLog, survivingMutations,
                                  errors, exited, exitCode, mutationResults >>
    /\ UNCHANGED << disk, original, opts, fileIdx, src, mutations, queue,
                    statsSummary, totalResults, warnings, htmlReports,
                    afterHook, doneCalls, writes, runs, calls,
                    baselineStatus >>

\* lines 169-181: the test run of the mutant on disk reports its status
TestReport(testStatus) ==
    /\ ~exited
    /\ trace' = [trace EXCEPT !.inFlight = @ - 1]
    /\ pc = "testing"
    /\ LET k == queue[qpos]
           mutationResult ==
               createMutationLogMessage(fileIdx, mutations[k], testStatus)
       IN /\ mutationResults' = Append(mutationResults, mutationResult)
          /\ outcome' = [outcome EXCEPT ![fileIdx][k] = OutcomeFor(testStatus)]
          /\ IF isSurvived(testStatus)
             THEN /\ stats' = [stats EXCEPT !.survived = @ + 1]
                  /\ reportLog' = Append(reportLog, mutationResult.message)
                  /\ survivingMutations' =
                         Append(survivingMutations, mutations[k].mutationId)
                  /\ qpos' = qpos + 1
                  /\ pc' = "mutating"
                  /\ UNCHANGED << errors, exited, exitCode >>
             ELSE IF isFatal(testStatus)
             THEN /\ errors' = Append(errors, mutationResult.message)
                  /\ exited' = TRUE
                  /\ exitCode' = 1
                  /\ UNCHANGED << stats, reportLog, survivingMutations,
                                  qpos, pc >>
             ELSE /\ qpos' = qpos + 1
                  /\ pc' = "mutating"
                  /\ UNCHANGED << stats, reportLog, survivingMutations,
                                  errors, exited, exitCode >>
    /\ UNCHANGED << disk, original, opts, fileIdx, src, mutations, queue,
                    statsSummary, totalResults, warnings, htmlReports,
                    afterHook, doneCalls, writes, runs, calls,
                    baselineStatus >>

\* mutant: the chain goes on without the write-back of fin
Restore_Skipped ==
    /\ ~exited
    /\ pc \in {"mutating", "failing"}
    /\ pc = "mutating" => qpos > Len(queue)
    /\ pc' = IF pc = "failing" THEN "rejected" ELSE "restored"
    /\ UNCHANGED << disk, original, opts, survivingMutations, fileIdx,
                    statsSummary, totalResults, calls, trace >>
    /\ UNCHANGED << fileVars, logVars, histVars, endVars >>

\* lines 185-192: the chain of the file is through or was rejected by a
\* throw (the steps left are skipped); fin writes src back and passes the
\* result or the rejection on
Restore ==
    /\ ~exited
    /\ UNCHANGED trace
    /\ pc \in {"mutating", "failing"}
    /\ pc = "mutating" => qpos > Len(queue)
    /\ disk' = [disk EXCEPT ![fileIdx] = FileOf(Utf8Encode(src))]
    /\ calls' = Bump(calls, fileIdx, "restore")
    /\ pc' = IF pc = "failing" THEN "rejected" ELSE "restored"
    /\ UNCHANGED << original, opts, survivingMutations, fileIdx,
                    statsSummary, totalResults >>
    /\ UNCHANGED << fileVars, logVars, histVars, endVars >>

\* mutant: the rejection is swallowed and the chain goes on to afterEach
Unhandled_Swallowed ==
    /\ ~exited
    /\ pc = "rejected"
    /\ pc' = "fileEnd"
    /\ UNCHANGED << disk, original, opts, survivingMutations, fileIdx,
                    statsSummary, totalResults, calls, trace >>
    /\ UNCHANGED << fileVars, logVars, histVars, endVars >>

\* lines 268-306: a rejection skips every success callback that is left
\* (collecting, afterEach, later files, summary, report and after hook);
\* done(done) at line 306 rethrows it instead of calling done
Unhandled ==
    /\ ~exited
    /\ pc = "rejected"
    /\ pc' = "aborted"
    /\ UNCHANGED << disk, original, opts, survivingMutations, fileIdx,
                    statsSummary, totalResults, calls, trace >>
    /\ UNCHANGED << fileVars, logVars, histVars, endVars >>

\* lines 268-271: the file's stats and result join the totals
CollectResult ==
    /\ ~exited
    /\ UNCHANGED trace
    /\ pc = "restored"
    /\ statsSummary' = addStats(statsSummary, stats)
    /\ totalResults' = Append(totalResults,
           [stats |-> stats, src |-> src, fileName |-> fileIdx,
            mutationResults |-> mutationResults])
    /\ pc' = "fileEnd"
    /\ src' = <<>>
    /\ mutations' = <<>>
    /\ queue' = <<>>
    /\ qpos' = 0
    /\ stats' = createStats
    /\ mutationResults' = <<>>
    /\ UNCHANGED << disk, original, opts, survivingMutations, fileIdx,
                    calls >>
    /\ UNCHANGED << logVars, histVars, endVars >>

\* lines 280-286: opts.afterEach is invoked
AfterEachStart ==
    /\ ~exited
    /\ UNCHANGED trace
    /\ pc = "fileEnd"
    /\ calls' = Bump(calls, fileIdx, "afterEach")
    /\ pc' = "afterEach"
    /\ UNCHANGED << disk, original, opts, survivingMutations, fileIdx,
                    statsSummary, totalResults >>
    /\ UNCHANGED << fileVars, logVars, histVars, endVars >>

\* mutant: the surviving-mutation list is emptied when a file is finished
AfterEachCallback_Clearing ==
    /\ ~exited
    /\ trace' = [trace EXCEPT !.ok = "none"]
    /\ pc = "afterEach"
    /\ calls' = Bump(calls, fileIdx, "afterEachDone")
    /\ survivingMutations' = <<>>
    /\ fileIdx' = fileIdx + 1
    /\ pc' = "ready"
    /\ UNCHANGED << disk, original, opts, statsSummary, totalResults >>
    /\ UNCHANGED << fileVars, logVars, histVars, endVars >>

\* lines 282-284: afterEach calls back; the chain goes on to the next file
AfterEachCallback ==
    /\ ~exited
    /\ trace' = [trace EXCEPT !.ok = "none"]
    /\ pc = "afterEach"
    /\ calls' = Bump(calls, fileIdx, "afterEachDone")
    /\ fileIdx' = fileIdx + 1
    /\ pc' = "ready"
    /\ UNCHANGED << disk, original, opts, survivingMutations,
                    statsSummary, totalResults >>
    /\ UNCHANGED << fileVars, logVars, histVars, endVars >>

\* lines 289-293: the summary
Summary ==
    /\ ~exited
    /\ UNCHANGED trace
    /\ pc = "ready"
    /\ fileIdx > NumFiles
    /\ reportLog' = IF statsSummary.all > 0
                    THEN Append(reportLog, createStatsMessage(statsSummary))
                    ELSE reportLog
    /\ pc' = "summarised"
    /\ UNCHANGED << disk, original, opts, survivingMutations, fileIdx,
                    statsSummary, totalResults, warnings, errors,
                    htmlReports, calls >>
    /\ UNCHANGED << fileVars, histVars, endVars >>

\* lines 295-304: the first callback on the summary promise: the html
\* report, then opts.after is invoked; the promise this returns is dropped
ReportAndAfter ==
    /\ ~exited
    /\ trace' = [trace EXCEPT !.afterCalls = @ + 1]
    /\ pc = "summarised"
    /\ htmlReports' = IF opts.reportersHtml
                      THEN Append(htmlReports, totalResults)
                      ELSE htmlReports
    /\ afterHook' = "running"
    /\ pc' = "afterInvoked"
    /\ UNCHANGED << disk, original, opts, survivingMutations, fileIdx,
                    statsSummary, totalResults, reportLog, warnings, errors,
                    doneCalls, exited, exitCode, calls >>
    /\ UNCHANGED << fileVars, histVars >>

\* mutant: done is registered twice on the summary promise
Done_Twice ==
    /\ ~exited
    /\ UNCHANGED trace
    /\ pc = "afterInvoked"
    /\ doneCalls' = doneCalls + 2
    /\ pc' = "finished"
    /\ UNCHANGED << disk, original, opts, survivingMutations, fileIdx,
                    statsSummary, totalResults, afterHook, exited, exitCode,
                    calls >>
    /\ UNCHANGED << fileVars, logVars, histVars >>

\* line 306: the second callback on the summary promise: done
Done ==
    /\ ~exited
    /\ UNCHANGED trace
    /\ pc = "afterInvoked"
    /\ doneCalls' = doneCalls + 1
    /\ pc' = "finished"
    /\ UNCHANGED << disk, original, opts, survivingMutations, fileIdx,
                    statsSummary, totalResults, afterHook, exited, exitCode,
                    calls >>
    /\ UNCHANGED << fileVars, logVars, histVars >>

\* lines 299-301: the after hook calls back, at once or later
AfterCallback ==
    /\ ~exited
    /\ UNCHANGED trace
    /\ afterHook = "running"
    /\ afterHook' = "completed"
    /\ UNCHANGED << disk, original, opts, survivingMutations, pc, fileIdx,
                    statsSummary, totalResults, doneCalls, exited, exitCode,
                    calls >>
    /\ UNCHANGED << fileVars, logVars, histVars >>

Next ==
    \/ StartTask
    \/ BeforeCallback
    \/ BeforeEachStart
    \/ \E ok \in BOOLEAN : BeforeEachCallback(ok)
    \/ \E testOk \in BOOLEAN : BaselineReport(testOk)
    \/ MutationStep
    \/ MutantWriteThrows
    \/ RunTestsThrows
    \/ \E testStatus \in TestStatusValues : TestReport(testStatus)
    \/ Restore
    \/ Unhandled
    \/ CollectResult
    \/ AfterEachStart
    \/ AfterEachCallback
    \/ Summary
    \/ ReportAndAfter
    \/ Done
    \/ AfterCallback

Spec == Init /\ [][Next]_vars

------------------------------------------------------------------------------
(* Vocabulary of the properties.                                           *)

\* the text and the mutations mutationTestFile works on for file f
SourceOf(f) == Utf8Decode(original[f].bytes)
MutationsOf(f) == collectMutations(SourceOf(f))
MutantOf(f, k) == FileOf(Utf8Encode(applyMutation(SourceOf(f), MutationsOf(f)[k])))

\* mutationTestFile was entered for f
Entered(f) == Len(outcome[f]) > 0 \/ calls[f].restore > 0 \/
              (fileIdx = f /\ pc \in {"mutating", "testing", "restored"})

Indices(f) == 1..Len(outcome[f])
InClass(f, class) == {k \in Indices(f) : outcome[f][k] = class}
FatalSeen == \E f \in Files : InClass(f, "FATAL") # {}

\* the pipeline of f has ended without FATAL: afterEach is next or behind
PipelineEnded(f) ==
    \/ fileIdx > f
    \/ fileIdx = f /\ pc \in {"restored", "fileEnd", "afterEach"}

\* the stats object of f while mutationTestFile runs and once it is collected
HasStats(f) ==
    \/ fileIdx = f /\ pc \in {"mutating", "testing", "restored"}
    \/ \E i \in 1..Len(totalResults) : totalResults[i].fileName = f
StatsOf(f) ==
    IF fileIdx = f /\ pc \in {"mutating", "testing", "restored"} THEN stats
    ELSE LET i == CHOOSE i \in 1..Len(totalResults) :
                      totalResults[i].fileName = f
         IN totalResults[i].stats

Collected == {totalResults[i].fileName : i \in 1..Len(totalResults)}

\* the mutations of the collected files that are in a class
CollectedInClass(class) ==
    {fk \in Files \X (1..MaxMutations) :
        fk[1] \in Collected /\ fk[2] \in InClass(fk[1], class)}

\* the sum of the stats of a list of file results
RECURSIVE SumStats(_)
SumStats(results) ==
    IF results = <<>> THEN [all |-> 0, ignored |-> 0, untested |-> 0, survived |-> 0]
    ELSE LET rest == SumStats(Tail(results))
             st == Head(results).stats
         IN [all |-> rest.all + st.all,
             ignored |-> rest.ignored + st.ignored,
             untested |-> rest.untested + st.untested,
             survived |-> rest.survived + st.survived]

Messages(log, type, f) ==
    {i \in 1..Len(log) : log[i].type = type /\ log[i].file = f}
StatsMessages == {i \in 1..Len(reportLog) : reportLog[i].type = "stats"}

------------------------------------------------------------------------------
(* C1: for every target file whose pipeline ends without FATAL, the        *)
(* content on disk when the pipeline ends equals the content the file had  *)
(* when the pipeline started.                                              *)
C1_RestoredIdentical ==
    \A f \in Files : PipelineEnded(f) => disk[f] = original[f]

(* C2: when the test runner returns FATAL for a mutation of a file, the    *)
(* file holds its original content in the terminated state.                *)
C2_FatalRestores ==
    exited => disk[fileIdx] = original[fileIdx]

(* C3: once the test runner has returned FATAL for a mutation, the process *)
(* has exited with status 1 and nothing happens afterwards: no later       *)
(* mutation of the file is written or tested, no later file gets a         *)
(* beforeEach hook or a baseline run, no summary, no report, no after      *)
(* hook, no call of done.                                                  *)
C3_NothingAfterFatalState ==
    FatalSeen =>
        /\ exited /\ exitCode = 1
        /\ pc = "testing"
        /\ InClass(fileIdx, "FATAL") = {queue[qpos]}
        /\ \A i \in (qpos + 1)..Len(queue) :
               /\ writes[fileIdx][queue[i]] = 0
               /\ runs[fileIdx][queue[i]] = 0
               /\ outcome[fileIdx][queue[i]] = "PENDING"
        /\ calls[fileIdx].restore = 0 /\ calls[fileIdx].afterEach = 0
        /\ \A f \in Files : f > fileIdx =>
               calls[f] = NoCalls /\ baselineStatus[f] = "none"
        /\ StatsMessages = {}
        /\ htmlReports = <<>>
        /\ afterHook = "idle"
        /\ doneCalls = 0

C3_NothingAfterFatal ==
    /\ [] C3_NothingAfterFatalState
    /\ [][FatalSeen => UNCHANGED vars]_vars

\* FATAL on a mutation that is not the last of a file that is not the last
C3_Witness ==
    /\ FatalSeen /\ exited
    /\ fileIdx < NumFiles
    /\ qpos < Len(queue)

(* C4: at most one target file differs on disk from its original content,  *)
(* and that file holds the original source with exactly one mutation       *)
(* applied; while the runner tests mutation m the disk holds the mutant of *)
(* m; while a baseline run or a beforeEach, afterEach or after hook is     *)
(* executing every target file holds its original content.                 *)
C4_OneMutantAtATime ==
    /\ Cardinality({f \in Files : disk[f] # original[f]}) <= 1
    /\ \A f \in Files : disk[f] # original[f] =>
           /\ original[f].exists
           /\ \E k \in 1..Len(MutationsOf(f)) : disk[f] = MutantOf(f, k)
    /\ pc = "testing" => disk[fileIdx] = MutantOf(fileIdx, queue[qpos])
    /\ (pc \in {"beforeEach", "baseline", "afterEach"} \/ afterHook = "running")
           => \A f \in Files : disk[f] = original[f]

(* C5: after a file's pipeline completes, stats.all == ignored + untested  *)
(* + survived + the number of its mutations that were run and KILLED; the  *)
(* same for the aggregate over the processed files.                        *)
C5_StatsIdentity ==
    /\ \A f \in Collected :
           LET st == StatsOf(f)
           IN st.all = st.ignored + st.untested + st.survived
                        + Cardinality(InClass(f, "TESTED_KILLED"))
    /\ statsSummary.all =
           statsSummary.ignored + statsSummary.untested + statsSummary.survived
               + Cardinality(CollectedInClass("TESTED_KILLED"))

(* C5 as amended: after a file's pipeline completes, stats.all == ignored  *)
(* + untested + survived + killed + the number of discarded mutations, per *)
(* file and in the aggregate.                                              *)
C5_StatsIdentityWithDiscarded ==
    /\ \A f \in Files : (f \in Collected \/ (fileIdx = f /\ pc = "restored")) =>
           LET st == StatsOf(f)
           IN /\ st.all = Len(MutationsOf(f))
              /\ st.ignored = Cardinality(InClass(f, "IGNORED"))
              /\ st.untested = Cardinality(InClass(f, "UNTESTED_NESTED"))
              /\ st.survived = Cardinality(InClass(f, "TESTED_SURVIVED"))
              /\ st.all = st.ignored + st.untested + st.survived
                           + Cardinality(InClass(f, "TESTED_KILLED"))
                           + Cardinality(InClass(f, "DISCARDED"))
    /\ statsSummary = SumStats(totalResults)
    /\ statsSummary.all =
           statsSummary.ignored + statsSummary.untested + statsSummary.survived
               + Cardinality(CollectedInClass("TESTED_KILLED"))
               + Cardinality(CollectedInClass("DISCARDED"))

\* two files are collected, with discarded, killed and survived mutations
C5_Witness ==
    /\ Len(totalResults) = 2
    /\ CollectedInClass("DISCARDED") # {}
    /\ CollectedInClass("TESTED_KILLED") # {}
    /\ CollectedInClass("TESTED_SURVIVED") # {}

\* every generated mutation of the run, as <<file, index>>
Generated == {fk \in Files \X (1..MaxMutations) : fk[2] \in Indices(fk[1])}
Desc(fk) == MutationsOf(fk[1])[fk[2]]
OutcomeOf(fk) == outcome[fk[1]][fk[2]]
NeverWrittenOrTested(fk) == writes[fk[1]][fk[2]] = 0 /\ runs[fk[1]][fk[2]] = 0

\* the chain has gone past the step of mutation k of file f
TurnPassed(fk) ==
    \/ fk[1] < fileIdx
    \/ fk[1] = fileIdx /\ pc \in {"restored", "fileEnd", "afterEach"}
    \/ fk[1] = fileIdx /\ pc \in {"mutating", "testing"}
          /\ \E i \in 1..(qpos - 1) : queue[i] = fk[2]

\* a comes before b in the order the run processes mutations
Precedes(a, b) == a[1] < b[1] \/ (a[1] = b[1] /\ a[2] < b[2])

Filtered(fk) ==
    \/ canBeDiscarded(opts, Desc(fk))
    \/ canBeIgnored(opts, SourceOf(fk[1]), Desc(fk))

(* C6: if mutation A survives, B's parent identifier equals A's identifier *)
(* and dontTestInsideNotFailingMutations is enabled, then B's outcome is   *)
(* UNTESTED_NESTED, the runner is never invoked for B and B's mutant is    *)
(* never written.                                                          *)
C6_NestedSkip ==
    \A a \in Generated, b \in Generated :
        ( /\ opts.dontTestInsideNotFailingMutations
          /\ OutcomeOf(a) = "TESTED_SURVIVED"
          /\ Desc(b).parentMutationId = Desc(a).mutationId
          /\ OutcomeOf(b) # "PENDING" )
        => OutcomeOf(b) = "UNTESTED_NESTED" /\ NeverWrittenOrTested(b)

(* C6 as amended: if A is classified SURVIVED before B's turn comes, B's   *)
(* parent identifier equals A's identifier, the option is enabled and B is *)
(* neither discarded nor ignored, then B is never written or tested and,   *)
(* once its turn has come, B is UNTESTED_NESTED and counted in untested.   *)
C6_NestedSkipOfUnfiltered ==
    /\ \A a \in Generated, b \in Generated :
        ( /\ opts.dontTestInsideNotFailingMutations
          /\ OutcomeOf(a) = "TESTED_SURVIVED"
          /\ Precedes(a, b)
          /\ Desc(b).parentMutationId = Desc(a).mutationId
          /\ ~Filtered(b) )
        => /\ NeverWrittenOrTested(b)
           /\ OutcomeOf(b) \in {"PENDING", "UNTESTED_NESTED"}
           /\ TurnPassed(b) => OutcomeOf(b) = "UNTESTED_NESTED"
    /\ \A f \in Files : HasStats(f) =>
           StatsOf(f).untested = Cardinality(InClass(f, "UNTESTED_NESTED"))

\* a child of a survivor was skipped, in the survivor's file and in a later one
C6_Witness ==
    /\ \E a \in Generated, b \in Generated :
           /\ a[1] = b[1]
           /\ OutcomeOf(a) = "TESTED_SURVIVED"
           /\ Desc(b).parentMutationId = Desc(a).mutationId
           /\ OutcomeOf(b) = "UNTESTED_NESTED"
    /\ \E a \in Generated, b \in Generated :
           /\ a[1] < b[1]
           /\ OutcomeOf(a) = "TESTED_SURVIVED"
           /\ Desc(b).parentMutationId = Desc(a).mutationId
           /\ OutcomeOf(b) = "UNTESTED_NESTED"

(* C7: a mutation whose replacement matches a discard pattern is counted   *)
(* in all only (never in ignored, untested or survived, even if its source *)
(* span matches an ignore pattern), is never written and never tested; a   *)
(* mutation that matches only an ignore pattern is counted in ignored      *)
(* exactly once and is never written or tested.                            *)
C7_DiscardBeforeIgnore ==
    /\ \A fk \in Generated :
           LET discard == canBeDiscarded(opts, Desc(fk))
               ignore == canBeIgnored(opts, SourceOf(fk[1]), Desc(fk))
           IN /\ discard =>
                    OutcomeOf(fk) = "DISCARDED" /\ NeverWrittenOrTested(fk)
              /\ (ignore /\ ~discard) =>
                    OutcomeOf(fk) = "IGNORED" /\ NeverWrittenOrTested(fk)
    /\ \A f \in Files : HasStats(f) =>
           LET st == StatsOf(f)
               counted(class) ==
                   {k \in InClass(f, class) :
                       ~canBeDiscarded(opts, MutationsOf(f)[k])}
           IN /\ st.all = Len(MutationsOf(f))
              /\ st.ignored = Cardinality(
                     {k \in Indices(f) :
                         /\ ~canBeDiscarded(opts, MutationsOf(f)[k])
                         /\ canBeIgnored(opts, SourceOf(f), MutationsOf(f)[k])})
              /\ st.untested = Cardinality(counted("UNTESTED_NESTED"))
              /\ st.survived = Cardinality(counted("TESTED_SURVIVED"))

\* a collected file with a mutation that matches a discard and an ignore
\* pattern and one that matches an ignore pattern only
C7_Witness ==
    \E f \in Collected :
        /\ \E k \in Indices(f) :
               /\ canBeDiscarded(opts, MutationsOf(f)[k])
               /\ canBeIgnored(opts, SourceOf(f), MutationsOf(f)[k])
        /\ \E k \in Indices(f) :
               /\ ~canBeDiscarded(opts, MutationsOf(f)[k])
               /\ canBeIgnored(opts, SourceOf(f), MutationsOf(f)[k])

(* C8: at the end of a run without FATAL the summary message (if any) is   *)
(* emitted, then the report collaborator receives the results list, then   *)
(* the after hook is run, and done is called only after the after hook has *)
(* called its completion callback.                                         *)
C8_EndOfRunOrder ==
    /\ (htmlReports # <<>> \/ afterHook # "idle") =>
           /\ pc \in {"afterInvoked", "finished"}
           /\ statsSummary.all > 0 => StatsMessages # {}
           /\ opts.reportersHtml => htmlReports = << totalResults >>
    /\ doneCalls > 0 => afterHook = "completed"

(* C9: for a file whose baseline run fails, no mutation of the file is     *)
(* written or tested, the aggregate stats and the results list are not     *)
(* changed by the file, a 'tests fail without mutations' message is        *)
(* logged, and the run goes on with the file's afterEach hook and then the *)
(* next file's beforeEach hook and baseline run.                           *)
C9_FailedBaselineState ==
    /\ statsSummary = SumStats(totalResults)
    /\ \A f \in Files : baselineStatus[f] = "failed" =>
           /\ outcome[f] = <<>> /\ writes[f] = <<>> /\ runs[f] = <<>>
           /\ calls[f].restore = 0
           /\ disk[f] = original[f]
           /\ f \notin Collected
           /\ Cardinality(Messages(reportLog, "testsFailWithoutMutations", f)) = 1
           /\ calls[f].baseline = 1
           /\ (fileIdx = f /\ ~exited) => pc \in {"fileEnd", "afterEach"}
           /\ fileIdx > f => calls[f].afterEach = 1
           /\ \A g \in Files : (g > f /\ calls[g].beforeEach > 0) =>
                  calls[f].afterEach = 1

C9_FailedBaselineStep ==
    \A f \in Files :
        /\ (baselineStatus[f] = "none" /\ baselineStatus'[f] = "failed") =>
               /\ pc' = "fileEnd"
               /\ UNCHANGED << disk, statsSummary, totalResults >>
        /\ (baselineStatus[f] = "failed" /\ fileIdx = f) =>
               /\ pc = "fileEnd" => pc' = "afterEach"
               /\ pc = "afterEach" => pc' = "ready" /\ fileIdx' = f + 1
        /\ (baselineStatus[f] = "failed" /\ fileIdx = f + 1 /\ pc = "ready"
              /\ f < NumFiles) => pc' = "beforeEach"

C9_FailedBaseline ==
    /\ [] C9_FailedBaselineState
    /\ [][C9_FailedBaselineStep]_vars

\* the first file's baseline failed after it existed with mutations to try,
\* and the second file's baseline run has been started
C9_Witness ==
    /\ NumFiles >= 2
    /\ baselineStatus[1] = "failed"
    /\ original[1] = FileOf(BytesAscii)
    /\ calls[2].baseline = 1

(* C10: for every target file that does not exist when its pipeline        *)
(* starts, a 'not found' warning is reported and the file is skipped: no   *)
(* mutation is attempted, nothing is written to its path, it contributes   *)
(* nothing to the aggregate stats or the results list, and the run goes on *)
(* with the next file.                                                     *)
C10_Skipped(f) ==
    /\ ~disk[f].exists
    /\ outcome[f] = <<>> /\ writes[f] = <<>> /\ runs[f] = <<>>
    /\ calls[f].restore = 0
    /\ f \notin Collected
    /\ statsSummary = SumStats(totalResults)
    /\ (fileIdx = f /\ ~exited /\ baselineStatus[f] # "none") =>
           pc \in {"fileEnd", "afterEach"}

C10_MissingFileWarned ==
    \A f \in Files : ~original[f].exists =>
        /\ C10_Skipped(f)
        /\ baselineStatus[f] # "none" =>
               Cardinality(Messages(warnings, "notFound", f)) = 1

(* C10 as amended: a target file that does not exist when its pipeline     *)
(* starts is skipped in the same way, and the 'not found' warning is       *)
(* reported exactly when its baseline run passed; when the baseline run    *)
(* failed the 'tests fail without mutations' message is logged instead.    *)
C10_MissingFileSkipped ==
    \A f \in Files : ~original[f].exists =>
        /\ C10_Skipped(f)
        /\ Cardinality(Messages(warnings, "notFound", f)) =
               (IF baselineStatus[f] = "passed" THEN 1 ELSE 0)
        /\ Cardinality(Messages(reportLog, "testsFailWithoutMutations", f)) =
               (IF baselineStatus[f] = "failed" THEN 1 ELSE 0)

\* a missing first file whose baseline passed, and the run is at the next file
C10_Witness ==
    /\ NumFiles >= 2
    /\ ~original[1].exists
    /\ baselineStatus[1] = "passed"
    /\ Messages(warnings, "notFound", 1) # {}
    /\ calls[2].baseline = 1

------------------------------------------------------------------------------
\* some step of file f is taken: a hook call or callback, a baseline run, a
\* write to f, a test run or a classification
StepOf(f) ==
    \/ calls'[f] # calls[f]
    \/ baselineStatus'[f] # baselineStatus[f]
    \/ disk'[f] # disk[f]
    \/ writes'[f] # writes[f]
    \/ runs'[f] # runs[f]
    \/ outcome'[f] # outcome[f]

(* C11: the test runner is never invoked while an earlier invocation has   *)
(* not reported (at most one run in flight) and no file is written while a *)
(* run is in flight; the test runs of one file start in the order the      *)
(* generator returned the mutations; all steps of a file happen after      *)
(* every step of the files before it in the mutate list and before any     *)
(* step of the files after it.                                             *)
C11_OneRunInFlight == trace.inFlight \in {0, 1}

C11_GeneratorOrder ==
    \A i, j \in 1..Len(trace.testLog) :
        i < j => Precedes(trace.testLog[i], trace.testLog[j])

C11_SequencedStep ==
    /\ trace'.inFlight > trace.inFlight => trace.inFlight = 0
    /\ disk' # disk => trace.inFlight = 0
    /\ \A f \in Files : StepOf(f) =>
           /\ calls[f].afterEachDone = 0
           /\ \A e \in Files : e < f => calls[e].afterEachDone = 1
           /\ \A g \in Files :
                  g > f => calls[g] = NoCalls /\ baselineStatus[g] = "none"
                               /\ outcome[g] = <<>> /\ disk[g] = original[g]

C11_Sequential ==
    /\ [](C11_OneRunInFlight /\ C11_GeneratorOrder)
    /\ [][C11_SequencedStep]_vars

\* two mutations of the first file and one of the second were tested, and
\* a test run is in flight
C11_Witness ==
    /\ NumFiles >= 2
    /\ trace.inFlight = 1
    /\ \E i, j \in 1..Len(trace.testLog) :
           /\ i < j
           /\ trace.testLog[i][1] = 1
           /\ trace.testLog[j][1] = 1
    /\ \E i \in 1..Len(trace.testLog) : trace.testLog[i][1] = 2

------------------------------------------------------------------------------
\* the text mutationTestFile read from f is on disk again
Restored(f) == disk[f] = FileOf(Utf8Encode(SourceOf(f)))

(* C12: in a run that ends without FATAL or exception the before and the   *)
(* after hook have each been invoked exactly once and beforeEach and       *)
(* afterEach exactly once per entry of the mutate list, skipped files      *)
(* included; the baseline run of f starts only once beforeEach(f) has      *)
(* called back, afterEach(f) starts only once the pipeline of f has ended  *)
(* and the source text was written back to f, and the after hook starts    *)
(* only once the last afterEach has called back.                           *)
C12_HooksOnce ==
    pc = "finished" =>
        /\ trace.beforeCalls = 1
        /\ trace.afterCalls = 1
        /\ \A f \in Files :
               /\ calls[f].beforeEach = 1 /\ calls[f].beforeEachDone = 1
               /\ calls[f].afterEach = 1 /\ calls[f].afterEachDone = 1

C12_HookStep ==
    /\ \A f \in Files :
           /\ calls'[f].baseline # calls[f].baseline =>
                  /\ calls[f].beforeEach = 1
                  /\ calls'[f].beforeEachDone = 1
                  /\ calls[f].baseline = 0
           /\ calls'[f].afterEach # calls[f].afterEach =>
                  /\ baselineStatus[f] # "none"
                  /\ trace.inFlight = 0
                  /\ \A k \in Indices(f) : outcome[f][k] # "PENDING"
                  /\ IF Entered(f)
                     THEN calls[f].restore = 1 /\ Restored(f)
                     ELSE calls[f].restore = 0 /\ disk[f] = original[f]
    /\ trace'.afterCalls # trace.afterCalls =>
           \A f \in Files : calls[f].afterEachDone = 1

C12_Hooks == []C12_HooksOnce /\ [][C12_HookStep]_vars

\* a finished run whose first file was skipped for a failed baseline and
\* whose second file was mutated, tested and restored
C12_Witness ==
    /\ NumFiles >= 2
    /\ pc = "finished"
    /\ baselineStatus[1] = "failed"
    /\ calls[2].restore = 1
    /\ \E k \in Indices(2) : runs[2][k] = 1

------------------------------------------------------------------------------
\* the identifiers of the mutations the runner reported SURVIVED for, in the
\* order their test runs happened
IsSurvivor(fk) == OutcomeOf(fk) = "TESTED_SURVIVED"
SurvivorIds ==
    LET survivors == SelectSeq(trace.testLog, IsSurvivor)
    IN [i \in 1..Len(survivors) |-> Desc(survivors[i]).mutationId]

(* C14: in every reachable state the surviving-mutation list holds exactly *)
(* the identifiers of the mutations the runner was invoked for and         *)
(* reported SURVIVED, one entry each and none for a KILLED, FATAL,         *)
(* ignored, discarded or nested-skipped mutation; it only grows, by one    *)
(* identifier in the very step that classifies a mutation as survived.     *)
C14_ExactlySurvivors ==
    /\ survivingMutations = SurvivorIds
    /\ \A fk \in Generated : IsSurvivor(fk) => runs[fk[1]][fk[2]] = 1

C14_AppendOnlyStep ==
    /\ survivingMutations' # survivingMutations =>
           \E f \in Files : \E k \in Indices(f) :
               /\ outcome[f][k] = "PENDING"
               /\ outcome'[f][k] = "TESTED_SURVIVED"
               /\ survivingMutations' =
                      Append(survivingMutations, MutationsOf(f)[k].mutationId)
    /\ \A f \in Files : \A k \in Indices(f) :
           (outcome[f][k] # outcome'[f][k] /\ outcome'[f][k] = "TESTED_SURVIVED")
               => Len(survivingMutations') = Len(survivingMutations) + 1

C14_SurvivorSet == []C14_ExactlySurvivors /\ [][C14_AppendOnlyStep]_vars

\* two survivors are recorded while other mutations were killed and
\* filtered or skipped
C14_Witness ==
    /\ Len(survivingMutations) >= 2
    /\ \E fk \in Generated : OutcomeOf(fk) = "TESTED_KILLED"
    /\ \E fk \in Generated :
           OutcomeOf(fk) \in {"IGNORED", "DISCARDED", "UNTESTED_NESTED"}

------------------------------------------------------------------------------
\* b is a mutation of a later file than a, and b's parent identifier is the
\* identifier of a, which survived
ChildOfEarlierSurvivor(a, b) ==
    /\ a[1] < b[1]
    /\ OutcomeOf(a) = "TESTED_SURVIVED"
    /\ Desc(b).parentMutationId = Desc(a).mutationId

(* C15: the surviving-mutation list is not cleared between files: with     *)
(* dontTestInsideNotFailingMutations enabled, a mutation of a later file   *)
(* whose parent identifier equals the identifier of a mutation that        *)
(* survived in an earlier file is counted as untested and is never written *)
(* or tested.                                                              *)
C15_CrossFileSkip ==
    \A a \in Generated, b \in Generated :
        ( /\ opts.dontTestInsideNotFailingMutations
          /\ ChildOfEarlierSurvivor(a, b)
          /\ TurnPassed(b) )
        => /\ OutcomeOf(b) = "UNTESTED_NESTED"
           /\ NeverWrittenOrTested(b)

(* C15 as amended: the list keeps the identifiers of the survivors of      *)
(* earlier files, and with the option enabled a mutation of a later file   *)
(* that is neither discarded nor ignored and whose parent identifier       *)
(* equals the identifier of a survivor of an earlier file is never written *)
(* or tested and, once its step has run, is UNTESTED_NESTED and counted in *)
(* the untested counter of its file.                                       *)
C15_CrossFileSkipOfUnfiltered ==
    /\ \A a \in Generated : OutcomeOf(a) = "TESTED_SURVIVED" =>
           \E i \in 1..Len(survivingMutations) :
               survivingMutations[i] = Desc(a).mutationId
    /\ \A a \in Generated, b \in Generated :
        ( /\ opts.dontTestInsideNotFailingMutations
          /\ ChildOfEarlierSurvivor(a, b)
          /\ ~Filtered(b) )
        => /\ NeverWrittenOrTested(b)
           /\ OutcomeOf(b) \in {"PENDING", "UNTESTED_NESTED"}
           /\ TurnPassed(b) =>
                  /\ OutcomeOf(b) = "UNTESTED_NESTED"
                  /\ HasStats(b[1]) => StatsOf(b[1]).untested >= 1

\* a mutation of the second file was skipped for a survivor of the first file
\* although no mutation of the second file has survived
C15_Witness ==
    /\ opts.dontTestInsideNotFailingMutations
    /\ \E a \in Generated, b \in Generated :
           /\ ChildOfEarlierSurvivor(a, b)
           /\ OutcomeOf(b) = "UNTESTED_NESTED"
           /\ StatsOf(b[1]).untested >= 1
           /\ \A c \in Generated : c[1] = b[1] => OutcomeOf(c) # "TESTED_SURVIVED"

------------------------------------------------------------------------------
\* a mutant write or a runner invocation has thrown in the mutation phase of
\* the current file
Thrown == pc \in {"failing", "rejected", "aborted"}

(* C16: if writing a mutant or invoking the test runner throws during a    *)
(* file's mutation phase, no further mutation of the file is written or    *)
(* tested, the source text is written back to the file, and the run is     *)
(* aborted: no afterEach hook, later file, summary, report or after hook   *)
(* is executed and the completion callback is not called.                  *)
C16_AbortedState ==
    Thrown =>
        /\ pc # "failing" => calls[fileIdx].restore = 1 /\ Restored(fileIdx)
        /\ trace.inFlight = 0
        /\ calls[fileIdx].afterEach = 0
        /\ \A g \in Files : g > fileIdx =>
               calls[g] = NoCalls /\ baselineStatus[g] = "none"
        /\ StatsMessages = {}
        /\ htmlReports = <<>>
        /\ trace.afterCalls = 0
        /\ afterHook = "idle"
        /\ doneCalls = 0

C16_AbortedStep ==
    Thrown =>
        /\ Thrown'
        /\ writes' = writes /\ runs' = runs /\ outcome' = outcome
        /\ trace' = trace
        /\ disk' # disk =>
               pc = "failing" /\ disk' = [disk EXCEPT ![fileIdx] =
                                             FileOf(Utf8Encode(src))]
        /\ UNCHANGED << fileIdx, calls, baselineStatus, statsSummary,
                        totalResults, logVars, endVars >>
           \/ (pc = "failing" /\ calls' = Bump(calls, fileIdx, "restore")
                 /\ UNCHANGED << fileIdx, baselineStatus, statsSummary,
                                 totalResults, logVars, endVars >>)

C16_ThrowAborts == []C16_AbortedState /\ [][C16_AbortedStep]_vars

\* the run was aborted after the runner threw for a mutant that had been
\* written, with a mutation of the file still waiting and the text restored
C16_Witness ==
    /\ pc = "aborted"
    /\ Restored(fileIdx)
    /\ \E k \in Indices(fileIdx) :
           writes[fileIdx][k] = 1 /\ runs[fileIdx][k] = 0
    /\ \E k \in Indices(fileIdx) :
           outcome[fileIdx][k] = "PENDING" /\ writes[fileIdx][k] = 0

------------------------------------------------------------------------------
FinalClasses == {"DISCARDED", "IGNORED", "UNTESTED_NESTED",
                 "TESTED_KILLED", "TESTED_SURVIVED"}
TestedClasses == {"TESTED_KILLED", "TESTED_SURVIVED"}

\* the mutations of f the runner was invoked for, in the order of the runs
TestedOf(f) ==
    LET OfFile(fk) == fk[1] = f
    IN SelectSeq(trace.testLog, OfFile)

(* C17: when the pipeline of a file has completed without FATAL, every     *)
(* mutation the generator returned is in exactly one of the classes        *)
(* DISCARDED, IGNORED, UNTESTED_NESTED, TESTED_KILLED, TESTED_SURVIVED;    *)
(* the runner was invoked exactly once for each mutation of the two tested *)
(* classes and never for the others; the file's mutationResults hold       *)
(* exactly one record per tested mutation, in the order of the test runs.  *)
C17_ExactlyOneOutcome ==
    \A i \in 1..Len(totalResults) :
        LET f == totalResults[i].fileName
            records == totalResults[i].mutationResults
            tested == TestedOf(f)
        IN /\ Len(outcome[f]) = Len(MutationsOf(f))
           /\ \A k \in Indices(f) :
                  /\ outcome[f][k] \in FinalClasses
                  /\ runs[f][k] = IF outcome[f][k] \in TestedClasses
                                  THEN 1 ELSE 0
                  /\ Cardinality({j \in 1..Len(tested) : tested[j][2] = k}) =
                         runs[f][k]
           /\ Len(records) = Len(tested)
           /\ \A j \in 1..Len(records) :
                  /\ records[j].mutation = MutationsOf(f)[tested[j][2]]
                  /\ records[j].survived =
                         (outcome[f][tested[j][2]] = "TESTED_SURVIVED")

\* a completed file with a killed and a surviving mutation and one mutation
\* that was filtered or skipped
C17_Witness ==
    \E i \in 1..Len(totalResults) :
        LET f == totalResults[i].fileName
        IN /\ Len(totalResults[i].mutationResults) >= 2
           /\ InClass(f, "TESTED_KILLED") # {}
           /\ InClass(f, "TESTED_SURVIVED") # {}
           /\ InClass(f, "DISCARDED") \cup InClass(f, "IGNORED")
                  \cup InClass(f, "UNTESTED_NESTED") # {}

------------------------------------------------------------------------------
(* C18: the value beforeEach passes to its callback does not gate          *)
(* execution: for either value the callback starts the baseline run of the *)
(* file, and when that run passes and the file exists mutationTestFile is  *)
(* entered and runs through the file's mutations.                          *)
C18_BaselineFollows ==
    \A f \in Files :
        calls'[f].beforeEachDone # calls[f].beforeEachDone =>
            /\ trace'.ok \in {"TRUE", "FALSE"}
            /\ calls'[f].baseline = calls[f].baseline + 1
            /\ trace'.inFlight = 1
            /\ pc' = "baseline"

C18_PipelineFollows ==
    trace.ok \in {"TRUE", "FALSE"} =>
        /\ calls[fileIdx].baseline = 1
        /\ (baselineStatus[fileIdx] = "passed" /\ original[fileIdx].exists)
               => Entered(fileIdx)
        /\ (Entered(fileIdx) /\ pc \in {"fileEnd", "afterEach"}) =>
               /\ fileIdx \in Collected
               /\ \A k \in Indices(fileIdx) :
                      outcome[fileIdx][k] \in FinalClasses

C18_ValueDoesNotGate == []C18_PipelineFollows /\ [][C18_BaselineFollows]_vars

\* beforeEach passed false, and the file was mutated, tested and restored
C18_Witness ==
    /\ trace.ok = "FALSE"
    /\ pc = "restored"
    /\ \E k \in Indices(fileIdx) : runs[fileIdx][k] = 1

------------------------------------------------------------------------------
InSurvivingSet(id) ==
    \E i \in 1..Len(survivingMutations) : survivingMutations[i] = id

(* C19: nested skipping is not transitive: the step that skips a mutation  *)
(* as UNTESTED_NESTED adds nothing to the surviving-mutation list and is   *)
(* taken only when the mutation's parent identifier is in the list; a      *)
(* mutation that is neither discarded nor ignored and whose parent         *)
(* identifier is not in the list is written and tested once its step has   *)
(* run, also when its parent was itself skipped as nested.                 *)
C19_SkipStep ==
    \A f \in Files : \A k \in Indices(f) :
        (outcome[f][k] # outcome'[f][k] /\ outcome'[f][k] = "UNTESTED_NESTED")
            => /\ survivingMutations' = survivingMutations
               /\ opts.dontTestInsideNotFailingMutations
               /\ InSurvivingSet(MutationsOf(f)[k].parentMutationId)

C19_TestedUnlessParentSurvived ==
    \A c \in Generated :
        ( /\ TurnPassed(c)
          /\ ~Filtered(c)
          /\ ~InSurvivingSet(Desc(c).parentMutationId) )
        => /\ OutcomeOf(c) \in TestedClasses
           /\ writes[c[1]][c[2]] = 1
           /\ runs[c[1]][c[2]] = 1

------------------------------------------------------------------------------
(* The run in which every hook calls back, every test run reports KILLED   *)
(* or SURVIVED and no step throws: Q runs a callback once its promise is   *)
(* settled, so a step that is enabled is taken eventually.                 *)
NextLive ==
    \/ StartTask
    \/ BeforeCallback
    \/ BeforeEachStart
    \/ \E ok \in BOOLEAN : BeforeEachCallback(ok)
    \/ \E testOk \in BOOLEAN : BaselineReport(testOk)
    \/ MutationStep
    \/ \E testStatus \in TestStatusValues \ {"FATAL"} : TestReport(testStatus)
    \/ Restore
    \/ CollectResult
    \/ AfterEachStart
    \/ AfterEachCallback
    \/ Summary
    \/ ReportAndAfter
    \/ Done
    \/ AfterCallback

SpecLive == Init /\ [][NextLive]_vars /\ WF_vars(NextLive)

(* C20: if every hook calls back, every test run reports a status, no      *)
(* status is FATAL and no step throws, the run eventually calls the        *)
(* caller's completion callback, and calls it exactly once.                *)
C20_DoneExactlyOnce == <>(doneCalls = 1) /\ [](doneCalls <= 1)

\* done was called at the end of a run that tested mutations of both files
C20_Witness ==
    /\ NumFiles >= 2
    /\ pc = "finished"
    /\ doneCalls = 1
    /\ \A f \in Files : \E k \in Indices(f) : runs[f][k] = 1

------------------------------------------------------------------------------
(* The summary step for any aggregate stats: the chain of the files is     *)
(* through (lines 289-306) and statsSummary holds counters that a run over *)
(* files with up to MaxAll mutations can have added up.                    *)
MaxAll == 50

StatsChoices ==
    { s \in [all : 0..MaxAll, ignored : {0, 2}, untested : {0, 1},
             survived : 0..MaxAll] :
          s.ignored + s.untested + s.survived <= s.all }

InitStats ==
    /\ disk = [f \in Files |-> FileOf(BytesAscii)]
    /\ original = disk
    /\ opts \in {o \in OptsChoices : /\ o.ignore = NoOption
                                     /\ o.discardReplacements = NoOption}
    /\ survivingMutations = <<>>
    /\ pc = "ready"
    /\ fileIdx = NumFiles + 1
    /\ src = <<>>
    /\ mutations = <<>>
    /\ queue = <<>>
    /\ qpos = 0
    /\ stats = createStats
    /\ mutationResults = <<>>
    /\ statsSummary \in StatsChoices
    /\ totalResults = <<>>
    /\ reportLog = <<>>
    /\ warnings = <<>>
    /\ errors = <<>>
    /\ htmlReports = <<>>
    /\ afterHook = "idle"
    /\ doneCalls = 0
    /\ exited = FALSE
    /\ exitCode = 0
    /\ outcome = [f \in Files |-> <<>>]
    /\ writes = [f \in Files |-> <<>>]
    /\ runs = [f \in Files |-> <<>>]
    /\ calls = [f \in Files |-> NoCalls]
    /\ baselineStatus = [f \in Files |-> "none"]
    /\ trace = [NoTrace EXCEPT !.beforeCalls = 1]

NextStats ==
    \/ Summary
    \/ ReportAndAfter
    \/ Done
    \/ AfterCallback

SpecStats == InitStats /\ [][NextStats]_vars

SummaryDue == pc \in {"summarised", "afterInvoked", "finished"}

(* C13: the summary message is emitted exactly once, at the end of the     *)
(* run, iff the aggregate all counter is greater than 0, and it reports    *)
(* tested = all - ignored - untested - survived, unignored = all - ignored *)
(* and percent = floor(tested / unignored * 100), with the ignored         *)
(* sentence exactly when ignored > 0.                                      *)
C13_SummaryEmission ==
    Cardinality(StatsMessages) =
        (IF SummaryDue /\ statsSummary.all > 0 THEN 1 ELSE 0)

C13_SummaryCounts ==
    \A i \in StatsMessages :
        LET m == reportLog[i]
            s == statsSummary
        IN /\ m.tested = s.all - s.ignored - s.untested - s.survived
           /\ m.unignored = s.all - s.ignored
           /\ m.hasIgnoredMessage = (s.ignored > 0)
           /\ m.hasIgnoredMessage => m.ignored = s.ignored

C13_SummaryPercent ==
    \A i \in StatsMessages :
        LET m == reportLog[i]
        IN m.unignored > 0 =>
               m.percent = ToString((m.tested * 100) \div m.unignored)

C13_SummaryMath ==
    /\ C13_SummaryEmission
    /\ C13_SummaryCounts
    /\ C13_SummaryPercent

====
